---- MODULE Spec2Model ----
(***************************************************************************)
(* Model of db/models.py: the ORM record classes User, Employee, App,      *)
(* Role, Group and the association records EmployeeToRole and RoleToGroup, *)
(* with their get_dict serialisation (the specification's to_dict).        *)
(*                                                                         *)
(* A record instance is modelled by its __dict__ (attribute name -> value):*)
(* the attributes the constructor sets, the ORM's '_sa_instance_state'     *)
(* entry, and what reading a relationship leaves on the instance (the      *)
(* loaded collection and the association proxy's cache entry).             *)
(* Relationship collections (employee_roles, role_groups) are kept per     *)
(* owner as sequences of the referenced keys, in memory: the same record   *)
(* may be listed twice and an entry may be None.  The tables' keys and     *)
(* foreign keys bind only what is written to the database (SpecDB).        *)
(* Python lists and dicts are objects with identity: the default           *)
(* `excludes = []` of each get_dict is one list per function, and the      *)
(* mapping a call returns records which dict object it is.                 *)
(***************************************************************************)
EXTENDS Integers, Sequences, FiniteSets, TLC

\* ------------------------------------------------------------------ bounds
\* the longest an exclusion list that lives across calls may grow
MaxExcludes == 2
\* the most association records held in the relationship collections
MaxRows == 2

\* ------------------------------------------------------------------ values
\* Every attribute value has the same shape so that mappings compare.
Str(x) == [tag |-> "str", s |-> x, l |-> <<>>]
\* a reference to another Python object (a record or an instrumented list)
Ref(x) == [tag |-> "ref", s |-> x, l |-> <<>>]
\* a list of nested mappings; s names the list object ("new": built by the call)
List(xs) == [tag |-> "list", s |-> "new", l |-> xs]
\* None
NoneValue == [tag |-> "none", s |-> "", l |-> <<>>]

EmptyMap == [k \in {} |-> Str("")]
Restrict(m, ks) == [k \in ks |-> m[k]]
Put(m, k, v) == [x \in (DOMAIN m) \cup {k} |-> IF x = k THEN v ELSE m[x]]
Has(list, k) == \E i \in 1..Len(list) : list[i] = k

\* ------------------------------------------------------------------ keys
UserId == "user1"
EmployeeId == "employee1"
AppId == "app1"
RoleIds == {"role1"}
GroupIds == {"group1"}
\* the argument None of an association record's constructor
NoneId == "None"
KindOf(id) ==
    IF id = UserId THEN "User"
    ELSE IF id = EmployeeId THEN "Employee"
    ELSE IF id = AppId THEN "App"
    ELSE IF id \in RoleIds THEN "Role"
    ELSE "Group"

VARIABLES
    objs,            \* existing records: key -> __dict__
    employee_roles,  \* Employee key -> sequence of Role keys (EmployeeToRole rows)
    role_groups,     \* Role key -> sequence of Group keys (RoleToGroup rows)
    defaults,        \* the default `excludes` list object of each get_dict
    shared,          \* a list object the caller owns and may pass to several calls
    original,        \* the content `shared` had when the caller built it
    stores_empty,    \* the installed ORM keeps a new record's empty collection in __dict__
    last             \* the latest operation and, for a call, what it returned

vars == <<objs, employee_roles, role_groups, defaults, shared, original, stores_empty, last>>

\* ------------------------------------------------------------ constructors
\* Every class derives from the declarative Base: its instrumented __init__
\* puts the ORM's state object into the new instance's __dict__.
Instrumented(m) == Put(m, "_sa_instance_state", Ref("InstanceState"))

\* the value of an attribute that holds a record or None
Obj(id) == IF id = NoneId THEN NoneValue ELSE Ref(id)

\* User.__init__
User_init(email, first_name, last_name, username, password, is_admin) ==
    Instrumented(
    [k \in {"email", "first_name", "last_name", "username", "password", "is_admin"} |->
        CASE k = "email" -> Str(email)
          [] k = "first_name" -> Str(first_name)
          [] k = "last_name" -> Str(last_name)
          [] k = "username" -> Str(username)
          [] k = "password" -> Str(password)
          [] OTHER -> Str(is_admin)])

\* Employee.__init__
Employee_init(email, first_name, last_name, slack_id) ==
    Instrumented(
    [k \in {"email", "first_name", "last_name", "slack_id"} |->
        CASE k = "email" -> Str(email)
          [] k = "first_name" -> Str(first_name)
          [] k = "last_name" -> Str(last_name)
          [] OTHER -> Str(slack_id)])

\* App.__init__: token is a plain instance attribute
App_init(name, token) ==
    Instrumented([k \in {"name", "token"} |-> IF k = "name" THEN Str(name) ELSE Str(token)])

\* Role.__init__
Role_init(name, description) ==
    Instrumented(
    [k \in {"name", "description"} |-> IF k = "name" THEN Str(name) ELSE Str(description)])

\* Group.__init__
Group_init(name, app_group_id, app_id) ==
    Instrumented(
    [k \in {"name", "app_group_id", "app_id"} |->
        CASE k = "name" -> Str(name)
          [] k = "app_group_id" -> Str(app_group_id)
          [] OTHER -> Str(app_id)])

\* EmployeeToRole.__init__: the __dict__ of the row (employee, role)
EmployeeToRole_init(role, employee) ==
    Instrumented(
    [k \in {"employee", "role"} |-> IF k = "employee" THEN Obj(employee) ELSE Obj(role)])

\* RoleToGroup.__init__: the __dict__ of the row (role, group)
RoleToGroup_init(group, role) ==
    Instrumented([k \in {"role", "group"} |-> IF k = "role" THEN Obj(role) ELSE Obj(group)])

\* ------------------------------------------------------------ dict objects
\* A dict object: which object it is (store) and what it holds (map).
\* self.__dict__ of record id
SelfDict(o, id) == [store |-> id, map |-> o[id]]

\* no copy: the very dict object
DictCopy_alias(d) == d

\* dict(d): a new dict object with the same entries (the values are shared)
DictCopy(d) == [store |-> "new", map |-> d.map]

\* db.helpers.filter_dictionary: the entries of d whose key is not in
\* excludes; the ORM's state entry is no attribute and is not shown
filter_dictionary(d, excludes) ==
    [store |-> d.store,
     map |-> Restrict(d.map, {k \in DOMAIN d.map :
                                 ~Has(excludes, k) /\ k # "_sa_instance_state"})]

\* Model.get_dict
Model_get_dict(d, excludes) == filter_dictionary(DictCopy(d), excludes)

\* what a get_dict call comes to: it returned dict object d, or it raised;
\* o is the records as the call leaves them
Result(o, d) == [ok |-> TRUE, o |-> o, store |-> d.store, map |-> d.map]
Failed(o) == [ok |-> FALSE, o |-> o, store |-> "", map |-> EmptyMap]

\* the name under which an association proxy caches itself on the instance
\* (the name ends in the id of the proxy object)
ProxyKey(rel) ==
    IF rel = "employee_roles" THEN "_AssociationProxy_employee_roles"
    ELSE "_AssociationProxy_role_groups"

\* Assigning the association record's `employee` / `role` appends the record
\* to the owner's collection through the backref: the collection is in the
\* owner's __dict__ from then on.
Backref(o, id, rel) ==
    IF rel \in DOMAIN o[id] THEN o
    ELSE [o EXCEPT ![id] = Put(o[id], rel, Ref(rel))]

\* Reading self.roles / self.groups of record id and iterating it.  The
\* proxy is cached in __dict__ on the first read.  The collection is read
\* through the relationship: when it is not in __dict__ yet (a new record
\* that no association record was appended to) it is empty, and whether
\* this read stores it in __dict__ depends on the installed ORM (st).
ReadProxy(o, id, rel, st) ==
    LET d1 == IF ProxyKey(rel) \in DOMAIN o[id] THEN o[id]
              ELSE Put(o[id], ProxyKey(rel), Ref("proxy"))
        d2 == IF rel \in DOMAIN d1 \/ ~st THEN d1 ELSE Put(d1, rel, Ref(rel))
    IN  [o EXCEPT ![id] = d2]

\* User.get_dict
User_get_dict(o, id, excludes) == Result(o, Model_get_dict(SelfDict(o, id), excludes))

\* Group has no get_dict of its own: Model.get_dict
Group_get_dict(o, id, excludes) == Result(o, Model_get_dict(SelfDict(o, id), excludes))

\* App.get_dict without the append
App_excludes_unchanged(excludes) == excludes

\* App.get_dict: the list after excludes.append('token')
App_excludes(excludes) == Append(excludes, "token")

\* App.get_dict that filters by 'token' alone, whatever list it is passed
App_get_dict_own_list(o, id, excludes) ==
    Result(o, Model_get_dict(SelfDict(o, id), <<"token">>))

\* App.get_dict
App_get_dict(o, id, excludes) ==
    Result(o, Model_get_dict(SelfDict(o, id), App_excludes(excludes)))

\* Role.get_dict: [group.get_dict() for group in self.groups], every group
\* being a record
Role_groups(o, rg, df, id) ==
    [i \in 1..Len(rg[id]) |-> Group_get_dict(o, rg[id][i], df["Model"]).map]

\* Role.get_dict.  A group that is None has no get_dict: AttributeError.
Role_get_dict(o, rg, df, id, excludes, st) ==
    LET role_dict == Model_get_dict(SelfDict(o, id), excludes)
    IN  IF ~Has(excludes, "groups")
        THEN LET o1 == ReadProxy(o, id, "role_groups", st)
             IN  IF Has(rg[id], NoneId) THEN Failed(o1)
                 ELSE Result(o1, [role_dict EXCEPT
                                     !.map = Put(role_dict.map, "groups",
                                                 List(Role_groups(o1, rg, df, id)))])
        ELSE Result(o, role_dict)

\* Employee.get_dict: [role.get_dict() for role in self.roles], the roles
\* still to come, acc the mappings so far.  The calls run one after the
\* other, each on the records as the calls before it left them.  A role that
\* is None has no get_dict: AttributeError.
RECURSIVE Employee_roles(_, _, _, _, _, _)
Employee_roles(o, rg, df, roles, acc, st) ==
    IF roles = <<>> THEN [ok |-> TRUE, o |-> o, l |-> acc]
    ELSE IF Head(roles) = NoneId THEN [ok |-> FALSE, o |-> o, l |-> acc]
    ELSE LET r == Role_get_dict(o, rg, df, Head(roles), df["Role"], st)
         IN  IF ~r.ok THEN [ok |-> FALSE, o |-> r.o, l |-> acc]
             ELSE Employee_roles(r.o, rg, df, Tail(roles), Append(acc, r.map), st)

\* Employee.get_dict
Employee_get_dict(o, er, rg, df, id, excludes, st) ==
    LET employee_dict == Model_get_dict(SelfDict(o, id), excludes)
    IN  IF ~Has(excludes, "roles")
        THEN LET roles == Employee_roles(ReadProxy(o, id, "employee_roles", st),
                                         rg, df, er[id], <<>>, st)
             IN  IF ~roles.ok THEN Failed(roles.o)
                 ELSE Result(roles.o,
                             [employee_dict EXCEPT
                                 !.map = Put(employee_dict.map, "roles", List(roles.l))])
        ELSE Result(o, employee_dict)

\* EmployeeToRole and RoleToGroup have no get_dict of their own: Model.get_dict
Row_get_dict(row, excludes) == Model_get_dict([store |-> "row", map |-> row], excludes)

\* ------------------------------------------------------------------ inputs
Tokens == {"", "secret123"}
\* the names are attributes of the record kinds (email: User, Employee; roles:
\* Employee; name: App, Role, Group; groups: Role; role: both association
\* records) and one name no kind has
ExcludeLists == {<<>>, <<"roles", "email">>, <<"name", "groups">>, <<"nickname", "role">>}

\* How a call passes `excludes`: not at all (the function's default list),
\* the caller's shared list, or a list built for this call.
OwnArgs == {[how |-> "default", list |-> <<>>]}
           \cup {[how |-> "fresh", list |-> E] : E \in ExcludeLists}
SharedArg == [how |-> "shared", list |-> <<>>]

\* the function whose default `excludes` list a call without argument uses
DefaultOf(kind) ==
    CASE kind = "Employee" -> "Employee"
      [] kind = "App" -> "App"
      [] kind = "Role" -> "Role"
      [] OTHER -> "Model"

\* the attributes the classes declare (constructor arguments and relationships)
Attributes(kind) ==
    CASE kind = "User" -> {"id", "email", "first_name", "last_name", "username", "password", "is_admin"}
      [] kind = "Employee" -> {"id", "email", "first_name", "last_name", "slack_id", "roles", "employee_roles"}
      [] kind = "App" -> {"id", "name", "token"}
      [] kind = "Role" -> {"id", "name", "description", "groups", "role_groups"}
      [] kind = "Group" -> {"id", "name", "app_group_id", "app_id"}
      [] kind = "EmployeeToRole" -> {"employee_id", "role_id", "employee", "role"}
      [] OTHER -> {"group_id", "role_id", "role", "group"}

NoCall(op) == [op |-> op, id |-> "", id2 |-> "", kind |-> "", how |-> "", orig |-> <<>>,
               excl |-> <<>>, after |-> <<>>, ok |-> FALSE, store |-> "", map |-> EmptyMap]

Init ==
    /\ objs = [x \in {} |-> EmptyMap]
    /\ employee_roles = [x \in {} |-> <<>>]
    /\ role_groups = [x \in {} |-> <<>>]
    /\ defaults = [f \in {"Model", "Employee", "App", "Role"} |-> <<>>]
    /\ shared = <<>>
    /\ original = <<>>
    /\ stores_empty \in BOOLEAN
    /\ last = NoCall("other")

Exists(id) == id \in DOMAIN objs
Add(f, k, v) == [x \in (DOMAIN f) \cup {k} |-> IF x = k THEN v ELSE f[x]]
Remove(f, k) == [x \in (DOMAIN f) \ {k} |-> f[x]]

\* the number of association records in the collections f holds
RECURSIVE Count(_, _)
Count(f, S) ==
    IF S = {} THEN 0
    ELSE LET x == CHOOSE y \in S : TRUE IN Len(f[x]) + Count(f, S \ {x})
Rows == Count(employee_roles, DOMAIN employee_roles) + Count(role_groups, DOMAIN role_groups)

\* ------------------------------------------------------------------ records
CreateUser ==
    /\ ~Exists(UserId)
    /\ objs' = Add(objs, UserId, User_init("u@x.com", "U", "V", "uv", "pw", "0"))
    /\ last' = NoCall("other")
    /\ UNCHANGED <<employee_roles, role_groups, defaults, shared, original, stores_empty>>

CreateEmployee ==
    /\ ~Exists(EmployeeId)
    /\ objs' = Add(objs, EmployeeId, Employee_init("a@x.com", "A", "B", ""))
    /\ employee_roles' = Add(employee_roles, EmployeeId, <<>>)
    /\ last' = NoCall("other")
    /\ UNCHANGED <<role_groups, defaults, shared, original, stores_empty>>

CreateApp ==
    /\ ~Exists(AppId)
    /\ objs' = Add(objs, AppId, App_init("Slack", ""))
    /\ last' = NoCall("other")
    /\ UNCHANGED <<employee_roles, role_groups, defaults, shared, original, stores_empty>>

CreateRole ==
    /\ \E id \in RoleIds :
          /\ ~Exists(id)
          /\ objs' = Add(objs, id, Role_init(id, "d"))
          /\ role_groups' = Add(role_groups, id, <<>>)
    /\ last' = NoCall("other")
    /\ UNCHANGED <<employee_roles, defaults, shared, original, stores_empty>>

\* Group(name, app_group_id, app_id)
Group_new(id) ==
    /\ ~Exists(id)
    /\ objs' = Add(objs, id, Group_init(id, "G", AppId))
    /\ last' = NoCall("other")
    /\ UNCHANGED <<employee_roles, role_groups, defaults, shared, original, stores_empty>>

CreateGroup == \E id \in GroupIds : Group_new(id)

\* EmployeeToRole(role, employee): assigning self.employee appends the new
\* record to the employee's employee_roles through the backref; with no
\* employee the record is in no collection
EmployeeToRole_new(role, employee) ==
    /\ IF employee = NoneId
       THEN UNCHANGED <<objs, employee_roles>>
       ELSE /\ employee_roles' = [employee_roles EXCEPT ![employee] = Append(@, role)]
            /\ objs' = Backref(objs, employee, "employee_roles")
    /\ last' = NoCall("other")
    /\ UNCHANGED <<role_groups, defaults, shared, original, stores_empty>>

\* RoleToGroup(group, role): assigning self.role appends the new record to
\* the role's role_groups through the backref
RoleToGroup_new(group, role) ==
    /\ IF role = NoneId
       THEN UNCHANGED <<objs, role_groups>>
       ELSE /\ role_groups' = [role_groups EXCEPT ![role] = Append(@, group)]
            /\ objs' = Backref(objs, role, "role_groups")
    /\ last' = NoCall("other")
    /\ UNCHANGED <<employee_roles, defaults, shared, original, stores_empty>>

\* the constructor takes any role and any employee, None included, and the
\* same pair again
AddRole ==
    /\ Rows < MaxRows
    /\ \E r \in (RoleIds \cap DOMAIN objs) \cup {NoneId},
          e \in ({EmployeeId} \cap DOMAIN objs) \cup {NoneId} :
          EmployeeToRole_new(r, e)

\* the constructor takes any group and any role, None included, and the
\* same pair again
AddGroup ==
    /\ Rows < MaxRows
    /\ \E g \in (GroupIds \cap DOMAIN objs) \cup {NoneId},
          r \in (RoleIds \cap DOMAIN objs) \cup {NoneId} :
          RoleToGroup_new(g, r)

\* ------------------------------------------------------------- persistence
\* What is written to the tables obeys the declared columns.
\* group.app_id is a foreign key to app.app_id
PersistGroup ==
    /\ Exists(AppId)
    /\ \E id \in GroupIds : Group_new(id)

\* employee_role: (employee_id, role_id) is the primary key, and each is a
\* foreign key
PersistEmployeeToRole ==
    \E r \in RoleIds :
       /\ Exists(EmployeeId) /\ Exists(r)
       /\ ~Has(employee_roles[EmployeeId], r)
       /\ EmployeeToRole_new(r, EmployeeId)

\* role_group: (group_id, role_id) is the primary key, and each is a
\* foreign key
PersistRoleToGroup ==
    \E r \in RoleIds, g \in GroupIds :
       /\ Exists(r) /\ Exists(g)
       /\ ~Has(role_groups[r], g)
       /\ RoleToGroup_new(g, r)

\* no cascade: the rows of a deleted Employee stay
Employee_cascade_none(er, id) == er

\* backref('employee_roles', cascade = 'all, delete-orphan'): the rows left
\* after the Employee id is deleted
Employee_cascade(er, id) == Remove(er, id)

\* backref('role_groups', cascade = 'all, delete-orphan'): the rows left
\* after the Role id is deleted
Role_cascade(rg, id) == Remove(rg, id)

\* ForeignKey('role.role_id') of employee_role: a row still references the Role
Role_referenced(er, id) == \E e \in DOMAIN er : Has(er[e], id)

\* ForeignKey('group.group_id') of role_group: a row still references the Group
Group_referenced(rg, id) == \E r \in DOMAIN rg : Has(rg[r], id)

\* ForeignKey('app.app_id') of group: a Group still references the App
App_referenced(o, id) ==
    \E g \in GroupIds \cap DOMAIN o : o[g]["app_id"] = Str(id)

DeleteUser ==
    /\ Exists(UserId)
    /\ objs' = Remove(objs, UserId)
    /\ last' = NoCall("delete")
    /\ UNCHANGED <<employee_roles, role_groups, defaults, shared, original, stores_empty>>

DeleteEmployee ==
    /\ Exists(EmployeeId)
    /\ objs' = Remove(objs, EmployeeId)
    /\ employee_roles' = Employee_cascade(employee_roles, EmployeeId)
    /\ last' = NoCall("delete")
    /\ UNCHANGED <<role_groups, defaults, shared, original, stores_empty>>

DeleteRole ==
    /\ \E id \in RoleIds :
          /\ Exists(id)
          /\ ~Role_referenced(employee_roles, id)
          /\ objs' = Remove(objs, id)
          /\ role_groups' = Role_cascade(role_groups, id)
    /\ last' = NoCall("delete")
    /\ UNCHANGED <<employee_roles, defaults, shared, original, stores_empty>>

DeleteGroup ==
    /\ \E id \in GroupIds :
          /\ Exists(id)
          /\ ~Group_referenced(role_groups, id)
          /\ objs' = Remove(objs, id)
    /\ last' = NoCall("delete")
    /\ UNCHANGED <<employee_roles, role_groups, defaults, shared, original, stores_empty>>

DeleteApp ==
    /\ Exists(AppId)
    /\ ~App_referenced(objs, AppId)
    /\ objs' = Remove(objs, AppId)
    /\ last' = NoCall("delete")
    /\ UNCHANGED <<employee_roles, role_groups, defaults, shared, original, stores_empty>>

\* ---------------------------------------------------------------- mutation
\* direct attribute assignment by the caller
SetAttr ==
    /\ Exists(AppId)
    /\ \E token \in Tokens :
          /\ objs[AppId]["token"] # Str(token)
          /\ objs' = [objs EXCEPT ![AppId] = Put(@, "token", Str(token))]
    /\ last' = NoCall("other")
    /\ UNCHANGED <<employee_roles, role_groups, defaults, shared, original, stores_empty>>

\* the caller builds the list it is going to pass
NewList ==
    /\ \E E \in ExcludeLists :
          /\ shared # E \/ original # E
          /\ shared' = E
          /\ original' = E
    /\ last' = NoCall("other")
    /\ UNCHANGED <<objs, employee_roles, role_groups, defaults, stores_empty>>

\* ------------------------------------------------------------------- calls
\* the list object a call binds to `excludes`
Bind(kind, a, df, sh) ==
    CASE a.how = "default" -> df[DefaultOf(kind)]
      [] a.how = "shared" -> sh
      [] OTHER -> a.list

\* User.get_dict(self, excludes) declares no default: a call without the
\* argument raises TypeError before the body runs
Raises(kind, a) == kind = "User" /\ a.how = "default"

\* record id's get_dict
get_dict(o, er, rg, df, id, excludes, st) ==
    CASE KindOf(id) = "User" -> User_get_dict(o, id, excludes)
      [] KindOf(id) = "Employee" -> Employee_get_dict(o, er, rg, df, id, excludes, st)
      [] KindOf(id) = "App" -> App_get_dict(o, id, excludes)
      [] KindOf(id) = "Role" -> Role_get_dict(o, rg, df, id, excludes, st)
      [] OTHER -> Group_get_dict(o, id, excludes)

\* the content of the passed list after record id's get_dict
get_dict_excludes(id, excludes) ==
    IF KindOf(id) = "App" THEN App_excludes(excludes) ELSE excludes

\* the content the passed list had when it was built
Original(a, orig) ==
    CASE a.how = "default" -> <<>>
      [] a.how = "shared" -> orig
      [] OTHER -> a.list

Returned(id, id2, kind, a, excl, after, r) ==
    [op |-> "get_dict", id |-> id, id2 |-> id2, kind |-> kind, how |-> a.how,
     orig |-> Original(a, original), excl |-> excl, after |-> after, ok |-> TRUE,
     store |-> r.store, map |-> r.map]

Raised(id, kind, a) == [NoCall("get_dict") EXCEPT !.id = id, !.kind = kind, !.how = a.how]

\* one call of record id's get_dict
Call(id, a) ==
    LET kind == KindOf(id)
        excl == Bind(kind, a, defaults, shared)
        after == get_dict_excludes(id, excl)
        r == get_dict(objs, employee_roles, role_groups, defaults, id, excl, stores_empty)
    IN  IF Raises(kind, a)
        THEN /\ last' = Raised(id, kind, a)
             /\ UNCHANGED <<objs, employee_roles, role_groups, defaults, shared, original,
                            stores_empty>>
        ELSE /\ (kind = "App" /\ a.how # "fresh") => Len(after) <= MaxExcludes
             /\ last' = IF r.ok THEN Returned(id, "", kind, a, excl, after, r)
                        ELSE Raised(id, kind, a)
             /\ objs' = r.o
             /\ defaults' = IF a.how = "default"
                            THEN [defaults EXCEPT ![DefaultOf(kind)] = after]
                            ELSE defaults
             /\ shared' = IF a.how = "shared" THEN after ELSE shared
             /\ UNCHANGED <<employee_roles, role_groups, original, stores_empty>>

\* one call of get_dict of an association record (Model.get_dict)
CallRow(a) ==
    LET excl == Bind("Row", a, defaults, shared)
    IN  /\ \/ \E e \in DOMAIN employee_roles : \E i \in 1..Len(employee_roles[e]) :
                 last' = Returned(e, employee_roles[e][i], "EmployeeToRole", a, excl, excl,
                             Row_get_dict(EmployeeToRole_init(employee_roles[e][i], e), excl))
           \/ \E r \in DOMAIN role_groups : \E i \in 1..Len(role_groups[r]) :
                 last' = Returned(r, role_groups[r][i], "RoleToGroup", a, excl, excl,
                             Row_get_dict(RoleToGroup_init(role_groups[r][i], r), excl))
        /\ UNCHANGED <<objs, employee_roles, role_groups, defaults, shared, original,
                       stores_empty>>

\* get_dict() or get_dict([...]) with a list built for the call
GetDict == \E id \in DOMAIN objs, a \in OwnArgs : Call(id, a)

\* get_dict(L) with the caller's shared list L
GetDictShared == \E id \in DOMAIN objs : Call(id, SharedArg)

GetDictRow == \E a \in OwnArgs : CallRow(a)

\* ------------------------------------------------- the caller uses the result
\* The caller adds, replaces or removes a key of the returned mapping.  The
\* change lands in the dict object the mapping is: a record's __dict__ when
\* the mapping is that object.
MutateResult ==
    /\ last.op = "get_dict" /\ last.ok
    /\ \E k \in (DOMAIN last.map) \cup {"extra"} :
          \/ /\ last' = NoCall("mutated")
             /\ objs' = IF last.store \in DOMAIN objs
                        THEN [objs EXCEPT ![last.store] = Put(@, k, Str("changed"))]
                        ELSE objs
          \/ /\ k \in DOMAIN last.map
             /\ last' = NoCall("mutated")
             /\ objs' = IF last.store \in DOMAIN objs
                        THEN [objs EXCEPT ![last.store] = Restrict(@, DOMAIN @ \ {k})]
                        ELSE objs
    /\ UNCHANGED <<employee_roles, role_groups, defaults, shared, original, stores_empty>>

\* The caller empties the 'roles' / 'groups' list of the returned mapping.
\* The change lands in the list object that value is: a record's
\* relationship collection when the value is that collection.
MutateResultList ==
    /\ last.op = "get_dict" /\ last.ok
    /\ \E k \in (DOMAIN last.map) \cap {"roles", "groups"} :
          /\ employee_roles' = IF last.map[k].s \in DOMAIN employee_roles
                                THEN [employee_roles EXCEPT ![last.map[k].s] = <<>>]
                                ELSE employee_roles
          /\ role_groups' = IF last.map[k].s \in DOMAIN role_groups
                             THEN [role_groups EXCEPT ![last.map[k].s] = <<>>]
                             ELSE role_groups
    /\ last' = NoCall("mutated")
    /\ UNCHANGED <<objs, defaults, shared, original, stores_empty>>

\* ---------------------------------------------------------- specifications
\* Serialisation of every record kind and of the associations, each call
\* with the default list or a list of its own.
Next ==
    \/ CreateUser \/ CreateEmployee \/ CreateApp \/ CreateRole \/ CreateGroup
    \/ AddRole \/ AddGroup
    \/ GetDict \/ GetDictRow
    \/ MutateResult \/ MutateResultList

Spec == Init /\ [][Next]_vars

\* Serialisation with exclusion lists that live across calls.
NextLists ==
    \/ CreateUser \/ CreateEmployee \/ CreateApp \/ CreateRole
    \/ SetAttr \/ NewList
    \/ GetDict \/ GetDictShared

SpecLists == Init /\ [][NextLists]_vars

\* The rows of the tables under creation and deletion.
NextDB ==
    \/ CreateUser \/ CreateEmployee \/ CreateApp \/ CreateRole \/ PersistGroup
    \/ PersistEmployeeToRole \/ PersistRoleToGroup
    \/ DeleteUser \/ DeleteEmployee \/ DeleteRole \/ DeleteGroup \/ DeleteApp

SpecDB == Init /\ [][NextDB]_vars

\* ------------------------------------------------------------------ claims
IsCall == last.op = "get_dict" /\ last.ok

\* C1: the mapping App.get_dict returns never has the key 'token', whatever
\* list is passed (the default one included) and whatever calls came before.
C1_AppNeverShowsToken ==
    (IsCall /\ last.kind = "App") => "token" \notin DOMAIN last.map

\* an App holding a token is serialised with the default list, which an
\* earlier call has already grown
C1_Witness ==
    /\ IsCall /\ last.kind = "App" /\ last.how = "default"
    /\ Len(last.excl) > 0
    /\ objs[last.id]["token"] = Str("secret123")

\* C2: the mapping a get_dict call returns has no top-level key that is in
\* the exclusion list it was called with.
C2_NoExcludedKey ==
    IsCall => \A i \in 1..Len(last.excl) : last.excl[i] \notin DOMAIN last.map

\* an App is serialised with a list that names its attribute 'name', while an
\* Employee that has a role exists
C2_Witness ==
    /\ IsCall /\ last.kind = "App" /\ Has(last.excl, "name")
    /\ "name" \in DOMAIN objs[last.id]
    /\ Exists(EmployeeId) /\ Has(employee_roles[EmployeeId], "role1")

\* C6: every EmployeeToRole row references an existing Employee and an
\* existing Role, and every RoleToGroup row an existing Role and an existing
\* Group, after any creations and deletions.
C6_RowsReferenceRecords ==
    /\ \A e \in DOMAIN employee_roles :
          /\ Exists(e)
          /\ \A i \in 1..Len(employee_roles[e]) : Exists(employee_roles[e][i])
    /\ \A r \in DOMAIN role_groups :
          /\ Exists(r)
          /\ \A i \in 1..Len(role_groups[r]) : Exists(role_groups[r][i])

\* an Employee has just been deleted while a Role it had and that Role's
\* row to a Group remain
C6_Witness ==
    /\ last.op = "delete"
    /\ ~Exists(EmployeeId)
    /\ \E r \in DOMAIN role_groups : Len(role_groups[r]) > 0

\* the roles of Employee e as Role.get_dict with an empty list serialises them
OwnRoles(o, er, rg, df, e, st) ==
    [i \in 1..Len(er[e]) |-> Role_get_dict(o, rg, df, er[e][i], <<>>, st).map]

\* C3: Employee.get_dict with an empty exclusion list returns under 'roles'
\* one mapping per associated role, in order, the i-th being what that role's
\* own get_dict with an empty list returns on the records as they are when
\* Employee.get_dict is called; with 'roles' excluded the mapping has no
\* 'roles' key.
C3_RolesExpanded ==
    [][(last'.op = "get_dict" /\ last'.ok /\ last'.kind = "Employee") =>
          /\ last'.excl = <<>> =>
                /\ "roles" \in DOMAIN last'.map
                /\ last'.map["roles"].l =
                      OwnRoles(objs, employee_roles, role_groups, defaults, last'.id, stores_empty)
          /\ Has(last'.excl, "roles") => "roles" \notin DOMAIN last'.map]_vars

\* C4: two consecutive get_dict calls on the same record with an empty
\* exclusion list, nothing else happening in between, return equal mappings.
C4_RepeatedCallsEqual ==
    [][(/\ last.op = "get_dict" /\ last.ok /\ last.excl = <<>>
        /\ last'.op = "get_dict" /\ last'.ok /\ last'.excl = <<>>
        /\ last'.kind = last.kind /\ last'.id = last.id /\ last'.id2 = last.id2)
       => last'.map = last.map]_vars

\* C5: adding, replacing or removing a key of the returned mapping, or
\* emptying the 'roles' / 'groups' list in it, changes no record attribute
\* and no relationship collection.
C5_ResultNotAliased ==
    [][last'.op = "mutated" =>
          /\ objs' = objs
          /\ employee_roles' = employee_roles
          /\ role_groups' = role_groups]_vars

\* the caller has changed the mapping returned for an Employee with a role
C5_Witness ==
    /\ last.op = "mutated"
    /\ Exists(EmployeeId)
    /\ Len(employee_roles[EmployeeId]) > 0
    /\ "employee_roles" \in DOMAIN objs[EmployeeId]

\* the names of a list that are attributes of the record kind
Known(kind, excludes) == SelectSeq(excludes, LAMBDA k : k \in Attributes(kind))

\* C7: every get_dict call that is given what its signature requires (for
\* User.get_dict the exclusion list, which has no default) returns a mapping
\* and raises nothing, and a name in the exclusion list that is no attribute
\* of the record is ignored: the mapping is the one the call without that
\* name returns.
C7_NeverFails ==
    [][(last'.op = "get_dict" /\ ~Raises(last'.kind, [how |-> last'.how])) =>
          /\ last'.ok
          /\ last'.id2 = "" =>
                last'.map = get_dict(objs, employee_roles, role_groups, defaults,
                                     last'.id, Known(last'.kind, last'.excl),
                                     stores_empty).map]_vars

\* C8: get_dict leaves the record attributes unchanged; for every kind but
\* App it leaves the passed list unchanged, and after App.get_dict the passed
\* list holds 'token'.
C8_ReadOnly ==
    [][(last'.op = "get_dict" /\ last'.ok) =>
          /\ objs' = objs
          /\ last'.kind # "App" =>
                (last'.after = last'.excl /\ defaults' = defaults /\ shared' = shared)
          /\ last'.kind = "App" => Has(last'.after, "token")]_vars

\* C9: for an Employee with roles and a list without 'roles', every nested
\* role mapping is what that role's own get_dict with an empty list returns,
\* whatever else the list holds; it keeps its 'groups' and 'name' keys.
C9_NestedNotFiltered ==
    [][(/\ last'.op = "get_dict" /\ last'.ok /\ last'.kind = "Employee"
        /\ ~Has(last'.excl, "roles"))
       => /\ "roles" \in DOMAIN last'.map
          /\ last'.map["roles"].l =
                OwnRoles(objs, employee_roles, role_groups, defaults, last'.id, stores_empty)
          /\ \A i \in 1..Len(last'.map["roles"].l) :
                {"groups", "name"} \subseteq DOMAIN last'.map["roles"].l[i]]_vars

\* C10: what a call returns does not depend on the calls before it: two
\* consecutive calls on the same record, with lists that were built with the
\* same content (the default list, or one list passed to both), return equal
\* mappings.
C10_HistoryIndependent ==
    [][(/\ last.op = "get_dict" /\ last.ok
        /\ last'.op = "get_dict" /\ last'.ok
        /\ last'.kind = last.kind /\ last'.id = last.id /\ last'.id2 = last.id2
        /\ last'.orig = last.orig)
       => last'.map = last.map]_vars

====
